---- MODULE Spec2Model ----
(***************************************************************************)
(* The ruby plugin of snapcraft (snapcraft/plugins/v2/ruby.py).            *)
(*                                                                         *)
(* A raw option mapping is validated against the schema of get_schema and  *)
(* turned into the plugin's options object; the orchestrator then calls    *)
(* get_build_packages, get_build_environment, _configure_opts and          *)
(* get_build_commands on the plugin, in any order and any number of times, *)
(* and runs the returned list of shell commands one after the other.       *)
(*                                                                         *)
(* Python strings are TLA+ strings, an f-string is a concatenation (\o),   *)
(* a Python list is an object on a heap (so that aliasing of the option    *)
(* lists is visible), a dict is a function and a set is a set.             *)
(***************************************************************************)
EXTENDS Integers, Sequences, FiniteSets, TLC

VARIABLES raw, pc, options, heap, ret, first_commands, plan, ran, ip

vars == <<raw, pc, options, heap, ret, first_commands, plan, ran, ip>>

(***************************************************************************)
(* Bounds of the model.                                                    *)
(***************************************************************************)
\* longest ruby-configure-options list the raw mapping carries
MaxConfigureOptions == 2
\* longest ruby-gems list the raw mapping carries
MaxGems == 2

(***************************************************************************)
(* Python helpers.                                                         *)
(***************************************************************************)
RECURSIVE Join(_, _)
\* sep.join(list)
Join(sep, list) ==
    IF Len(list) = 0 THEN ""
    ELSE IF Len(list) = 1 THEN list[1]
    ELSE list[1] \o sep \o Join(sep, Tail(list))

\* text predicates the properties use: s begins with p, ends with p, has p
StartsWith(s, p) == Len(s) >= Len(p) /\ SubSeq(s, 1, Len(p)) = p
EndsWith(s, p) == Len(s) >= Len(p) /\ SubSeq(s, Len(s) - Len(p) + 1, Len(s)) = p
Contains(s, p) == \E i \in 1..(Len(s) - Len(p) + 1) : SubSeq(s, i, i + Len(p) - 1) = p

\* all sequences over S of length at most n
SeqsUpTo(S, n) == UNION {[1..k -> S] : k \in 0..n}

\* a fresh list object: h extended by a new reference holding list
Alloc(h, list) ==
    LET r == Cardinality(DOMAIN h) + 1
    IN  [heap |-> [x \in (DOMAIN h) \cup {r} |-> IF x = r THEN list ELSE h[x]], ref |-> r]

\* a + b on two list objects: a new list object, a and b untouched
ListAdd(h, a, b) == Alloc(h, h[a] \o h[b])

\* r.append(x): the list object r is changed in place
ListAppend(h, r, x) == [h EXCEPT ![r] = Append(@, x)]

\* env[k] = v on a dict
DictSet(d, k, v) == [x \in (DOMAIN d) \cup {k} |-> IF x = k THEN v ELSE d[x]]

(***************************************************************************)
(* JSON values of the raw option mapping, tagged with their JSON type.     *)
(***************************************************************************)
Str(s) == [t |-> "string", v |-> s]
Bool(b) == [t |-> "boolean", v |-> IF b THEN "true" ELSE "false"]
Arr(items) == [t |-> "array", items |-> items]
StrArr(list) == Arr([i \in 1..Len(list) |-> Str(list[i])])

\* the plain Python value of a JSON value
Value(j) ==
    CASE j.t = "array" -> [i \in 1..Len(j.items) |-> j.items[i].v]
      [] j.t = "boolean" -> (j.v = "true")
      [] OTHER -> j.v

(***************************************************************************)
(* get_schema                                                              *)
(***************************************************************************)
VersionPattern == "^\\d+\\.\\d+(\\.\\d+)?$"

\* the schema with the pattern of ruby-version left out
GetSchemaWithoutPattern ==
    [additionalProperties |-> FALSE,
     properties |->
        ("ruby-flavor" :> [type |-> "string", default |-> Str("ruby")])
     @@ ("ruby-version" :> [type |-> "string", default |-> Str("3.0")])
     @@ ("ruby-use-bundler" :> [type |-> "boolean", default |-> Bool(FALSE)])
     @@ ("ruby-prefix" :> [type |-> "string", default |-> Str("/usr")])
     @@ ("ruby-use-jemalloc" :> [type |-> "boolean", default |-> Bool(FALSE)])
     @@ ("ruby-shared" :> [type |-> "boolean", default |-> Bool(FALSE)])
     @@ ("ruby-configure-options" :>
            [type |-> "array", items |-> [type |-> "string"], default |-> Arr(<<>>)])
     @@ ("ruby-gems" :>
            [type |-> "array", items |-> [type |-> "string"], default |-> Arr(<<>>)])]

GetSchema ==
    [additionalProperties |-> FALSE,
     properties |->
        ("ruby-flavor" :> [type |-> "string", default |-> Str("ruby")])
     @@ ("ruby-version" :>
            [type |-> "string", default |-> Str("3.0"), pattern |-> VersionPattern])
     @@ ("ruby-use-bundler" :> [type |-> "boolean", default |-> Bool(FALSE)])
     @@ ("ruby-prefix" :> [type |-> "string", default |-> Str("/usr")])
     @@ ("ruby-use-jemalloc" :> [type |-> "boolean", default |-> Bool(FALSE)])
     @@ ("ruby-shared" :> [type |-> "boolean", default |-> Bool(FALSE)])
     @@ ("ruby-configure-options" :>
            [type |-> "array", items |-> [type |-> "string"], default |-> Arr(<<>>)])
     @@ ("ruby-gems" :>
            [type |-> "array", items |-> [type |-> "string"], default |-> Arr(<<>>)])]

(***************************************************************************)
(* Validation of a raw mapping against the schema, and the options object  *)
(* built from it.                                                          *)
(***************************************************************************)
IsDigit(c) == c \in {"0", "1", "2", "3", "4", "5", "6", "7", "8", "9"}

RECURSIVE DigitRun(_, _)
\* the position after the longest run of digits of s that starts at i
DigitRun(s, i) ==
    IF i <= Len(s) /\ IsDigit(SubSeq(s, i, i)) THEN DigitRun(s, i + 1) ELSE i

\* s matches ^\d+\.\d+(\.\d+)?$
MatchVersion(s) ==
    LET a == DigitRun(s, 1)
        b == DigitRun(s, a + 1)
        c == DigitRun(s, b + 1)
        n == Len(s)
    IN  /\ a > 1
        /\ a <= n /\ SubSeq(s, a, a) = "."
        /\ b > a + 1
        /\ \/ b = n + 1
           \/ /\ SubSeq(s, b, b) = "."
              /\ c > b + 1
              /\ c = n + 1

\* re.search(pattern, s) for the patterns the schema uses
Matches(pattern, s) == IF pattern = VersionPattern THEN MatchVersion(s) ELSE TRUE

\* the JSON value j satisfies the property schema p
ValidProperty(p, j) ==
    /\ j.t = p.type
    /\ ("pattern" \in DOMAIN p /\ j.t = "string") => Matches(p.pattern, j.v)
    /\ ("items" \in DOMAIN p /\ j.t = "array") =>
            \A i \in 1..Len(j.items) : j.items[i].t = p.items.type

\* the raw mapping m satisfies the schema
ValidAgainst(schema, m) ==
    /\ (~schema.additionalProperties) => DOMAIN m \subseteq DOMAIN schema.properties
    /\ \A k \in (DOMAIN m) \cap (DOMAIN schema.properties) :
            ValidProperty(schema.properties[k], m[k])

\* the value of option k: the raw value, or the schema's default
OptionValue(schema, m, k) ==
    Value(IF k \in DOMAIN m THEN m[k] ELSE schema.properties[k].default)

\* references of the two list objects the options object holds
ConfigureOptionsRef == 1
GemsRef == 2

\* the options object: one attribute per schema property
MakeOptions(schema, m) ==
    [ruby_flavor |-> OptionValue(schema, m, "ruby-flavor"),
     ruby_version |-> OptionValue(schema, m, "ruby-version"),
     ruby_use_bundler |-> OptionValue(schema, m, "ruby-use-bundler"),
     ruby_prefix |-> OptionValue(schema, m, "ruby-prefix"),
     ruby_use_jemalloc |-> OptionValue(schema, m, "ruby-use-jemalloc"),
     ruby_shared |-> OptionValue(schema, m, "ruby-shared"),
     ruby_configure_options |-> ConfigureOptionsRef,
     ruby_gems |-> GemsRef]

\* the list objects of the options object
MakeHeap(schema, m) ==
    (ConfigureOptionsRef :> OptionValue(schema, m, "ruby-configure-options"))
 @@ (GemsRef :> OptionValue(schema, m, "ruby-gems"))

\* the options object before validation
NoOptions ==
    [ruby_flavor |-> "", ruby_version |-> "", ruby_use_bundler |-> FALSE,
     ruby_prefix |-> "", ruby_use_jemalloc |-> FALSE, ruby_shared |-> FALSE,
     ruby_configure_options |-> ConfigureOptionsRef, ruby_gems |-> GemsRef]

NoHeap == (ConfigureOptionsRef :> <<>>) @@ (GemsRef :> <<>>)

\* the list objects still referenced once a method has returned
Collect(h) == [r \in {ConfigureOptionsRef, GemsRef} |-> h[r]]

(***************************************************************************)
(* get_build_packages, get_build_environment                               *)
(***************************************************************************)
\* libjemalloc-dev never requested
get_build_packages_curl_only(o) == {"curl"}

get_build_packages(o) ==
    LET packages == {"curl"}
    IN  IF o.ruby_use_jemalloc THEN packages \cup {"libjemalloc-dev"} ELSE packages

\* LD_LIBRARY_PATH set whether or not ruby is built shared
get_build_environment_always_lib(o) ==
    LET env == ("PATH" :> ("${SNAPCRAFT_PART_INSTALL}" \o o.ruby_prefix \o "/bin:${PATH}"))
    IN  DictSet(env, "LD_LIBRARY_PATH",
                "${SNAPCRAFT_PART_INSTALL}" \o o.ruby_prefix
                    \o "/lib${LD_LIBRARY_PATH:+:$LD_LIBRARY_PATH}")

get_build_environment(o) ==
    LET env == ("PATH" :> ("${SNAPCRAFT_PART_INSTALL}" \o o.ruby_prefix \o "/bin:${PATH}"))
    IN  IF o.ruby_shared
        THEN DictSet(env, "LD_LIBRARY_PATH",
                     "${SNAPCRAFT_PART_INSTALL}" \o o.ruby_prefix
                         \o "/lib${LD_LIBRARY_PATH:+:$LD_LIBRARY_PATH}")
        ELSE env

(***************************************************************************)
(* _configure_opts, get_build_commands                                     *)
(***************************************************************************)
\* the conditional flags appended to the caller's own list object
_configure_opts_in_place(h, o) ==
    LET r  == o.ruby_configure_options
        h1 == IF o.ruby_shared THEN ListAppend(h, r, "--enable-shared") ELSE h
        h2 == IF o.ruby_use_jemalloc THEN ListAppend(h1, r, "--with-jemalloc") ELSE h1
        a  == Alloc(h2, <<"--without-baseruby", "--enable-load-relative",
                          "--disable-install-doc">> \o h2[r])
    IN  a

\* the caller's options put in front of the baseline flags
_configure_opts_caller_first(h, o) ==
    LET lit == Alloc(h, <<"--without-baseruby", "--enable-load-relative",
                          "--disable-install-doc">>)
        sum == ListAdd(lit.heap, o.ruby_configure_options, lit.ref)
        h1  == IF o.ruby_shared
               THEN ListAppend(sum.heap, sum.ref, "--enable-shared") ELSE sum.heap
        h2  == IF o.ruby_use_jemalloc
               THEN ListAppend(h1, sum.ref, "--with-jemalloc") ELSE h1
    IN  [heap |-> h2, ref |-> sum.ref]

\* the allocator flag appended before the shared flag
_configure_opts_jemalloc_first(h, o) ==
    LET lit == Alloc(h, <<"--without-baseruby", "--enable-load-relative",
                          "--disable-install-doc">>)
        sum == ListAdd(lit.heap, lit.ref, o.ruby_configure_options)
        h1  == IF o.ruby_use_jemalloc
               THEN ListAppend(sum.heap, sum.ref, "--with-jemalloc") ELSE sum.heap
        h2  == IF o.ruby_shared
               THEN ListAppend(h1, sum.ref, "--enable-shared") ELSE h1
    IN  [heap |-> h2, ref |-> sum.ref]

\* the heap after the call, and the reference of the returned list
_configure_opts(h, o) ==
    LET lit == Alloc(h, <<"--without-baseruby", "--enable-load-relative",
                          "--disable-install-doc">>)
        sum == ListAdd(lit.heap, lit.ref, o.ruby_configure_options)
        h1  == IF o.ruby_shared
               THEN ListAppend(sum.heap, sum.ref, "--enable-shared") ELSE sum.heap
        h2  == IF o.ruby_use_jemalloc
               THEN ListAppend(h1, sum.ref, "--with-jemalloc") ELSE h1
    IN  [heap |-> h2, ref |-> sum.ref]

ruby_install_version == "0.8.5"

ruby_install_checksum ==
    "SHA256 (ruby-install.tar.gz) = 793fcf44dce375c6c191003c3bfd22ebc85fa296d751808ab315872f5ee0179b"

\* the archive unpacked before its checksum is asserted
FetchCommands_unpack_first ==
    << "curl -L --proto '=https' --tlsv1.2 https://github.com/postmodern/ruby-install/archive/refs/tags/v"
            \o ruby_install_version \o ".tar.gz -o ruby-install.tar.gz",
       "tar xfz ruby-install.tar.gz",
       "echo 'Checksum of downloaded file:'",
       "sha256sum --tag ruby-install.tar.gz",
       "echo 'Checksum is correct if it matches:'",
       "echo '" \o ruby_install_checksum \o "'",
       "echo '" \o ruby_install_checksum \o "' | sha256sum --check --strict" >>

\* the commands that download, verify and unpack ruby-install
FetchCommands ==
    << "curl -L --proto '=https' --tlsv1.2 https://github.com/postmodern/ruby-install/archive/refs/tags/v"
            \o ruby_install_version \o ".tar.gz -o ruby-install.tar.gz",
       "echo 'Checksum of downloaded file:'",
       "sha256sum --tag ruby-install.tar.gz",
       "echo 'Checksum is correct if it matches:'",
       "echo '" \o ruby_install_checksum \o "'",
       "echo '" \o ruby_install_checksum \o "' | sha256sum --check --strict",
       "tar xfz ruby-install.tar.gz" >>

\* the ruby-install invocation, configure_opts being the joined flags
InstallCommand(o, configure_opts) ==
    "ruby-install-" \o ruby_install_version
        \o "/bin/ruby-install --src-dir ${SNAPCRAFT_PART_SRC} --install-dir ${SNAPCRAFT_PART_INSTALL}"
        \o o.ruby_prefix
        \o " --package-manager apt --jobs=${SNAPCRAFT_PARALLEL_BUILD_COUNT} "
        \o o.ruby_flavor \o "-" \o o.ruby_version \o " -- " \o configure_opts

\* the old bundler executables left in place
BundlerCommands_keep_old(o) ==
    << "gem install --env-shebang --no-document bundler" >>

\* the commands that replace the bundler executables
BundlerCommands(o) ==
    << "rm -f ${SNAPCRAFT_PART_INSTALL}" \o o.ruby_prefix \o "/bin/{bundle,bundler}",
       "gem install --env-shebang --no-document bundler" >>

\* bundle run whether or not ruby-use-bundler is set
BundleCommands_always(o) == << "bundle" >>

\* the run of bundler, if asked for
BundleCommands(o) == IF o.ruby_use_bundler THEN << "bundle" >> ELSE << >>

\* one gem install command for each gem
GemCommands_one_each(gems) ==
    [i \in 1..Len(gems) |-> "gem install --env-shebang --no-document " \o gems[i]]

\* the installation of the caller's gems, if there are any
GemCommands(gems) ==
    IF Len(gems) > 0
    THEN << "gem install --env-shebang --no-document " \o Join(" ", gems) >>
    ELSE << >>

\* the heap after the call, and the returned list of commands
get_build_commands(h, o) ==
    LET c  == _configure_opts(h, o)
        configure_opts == Join(" ", c.heap[c.ref])
        commands ==
            FetchCommands
                \o << InstallCommand(o, configure_opts) >>
                \o BundlerCommands(o)
                \o BundleCommands(o)
                \o GemCommands(c.heap[o.ruby_gems])
    IN  [heap |-> c.heap, val |-> commands]

(***************************************************************************)
(* The raw option mappings the orchestrator may hand over.                 *)
(***************************************************************************)
Absent == [t |-> "absent"]

\* the mapping that gives key k the value f[k], the Absent keys left out
Mapping(f) == [k \in {x \in DOMAIN f : f[x] # Absent} |-> f[k]]

\* the mapping m with key k set to j
Override(m, k, j) == [x \in (DOMAIN m) \cup {k} |-> IF x = k THEN j ELSE m[x]]

\* the lists of configure options a caller gives: the plain ones, and lists
\* that name a flag the plugin also appends on its own
CallerOptionLists ==
    SeqsUpTo({"--foo", "--bar"}, MaxConfigureOptions)
        \cup {<<"--enable-shared">>, <<"--with-jemalloc", "--foo">>}

\* the lists of gems a caller gives
CallerGemLists == SeqsUpTo({"rake", "rspec"}, MaxGems) \cup {<<"bundler">>}

\* the values a mapping that satisfies the schema gives to each key;
\* Absent: the key is left out
GoodChoices ==
       ("ruby-flavor" :> {Absent, Str("jruby")})
    @@ ("ruby-version" :> {Absent, Str("2.7.2")})
    @@ ("ruby-use-bundler" :> {Absent, Bool(TRUE)})
    @@ ("ruby-prefix" :> {Absent, Str("/opt/ruby")})
    @@ ("ruby-use-jemalloc" :> {Absent, Bool(TRUE)})
    @@ ("ruby-shared" :> {Absent, Bool(TRUE)})
    @@ ("ruby-configure-options" :> {Absent} \cup {StrArr(l) : l \in CallerOptionLists})
    @@ ("ruby-gems" :> {Absent} \cup {StrArr(l) : l \in CallerGemLists})

\* the scalar options given, with the lists co and ge
MappingsWith(co, ge) ==
    { Mapping(   ("ruby-flavor" :> fl) @@ ("ruby-version" :> ve)
              @@ ("ruby-use-bundler" :> bu) @@ ("ruby-prefix" :> pr)
              @@ ("ruby-use-jemalloc" :> je) @@ ("ruby-shared" :> sh)
              @@ ("ruby-configure-options" :> co) @@ ("ruby-gems" :> ge)) :
        fl \in GoodChoices["ruby-flavor"], ve \in GoodChoices["ruby-version"],
        bu \in GoodChoices["ruby-use-bundler"], pr \in GoodChoices["ruby-prefix"],
        je \in GoodChoices["ruby-use-jemalloc"], sh \in GoodChoices["ruby-shared"] }

GoodMappings ==
    UNION { MappingsWith(co, ge) :
                co \in GoodChoices["ruby-configure-options"], ge \in GoodChoices["ruby-gems"] }

\* entries that violate the schema: a malformed version, a value of the
\* wrong type, a key the schema does not know
BadEntries ==
    {<<"ruby-version", Str(v)>> : v \in {"3", "vX", "", "3.0.", "3.0.1.2", ".5", "3.x"}}
        \cup { <<"ruby-version", Bool(TRUE)>>,
               <<"ruby-use-bundler", Str("yes")>>,
               <<"ruby-gems", Arr(<<Bool(TRUE)>>)>>,
               <<"ruby-configure-options", Str("--foo")>>,
               <<"ruby-jobs", Str("4")>>,
               <<"ruby-jobs", Bool(TRUE)>> }

BadMappings ==
    { Override(m, e[1], e[2]) : m \in MappingsWith(Absent, StrArr(<<"rake">>)), e \in BadEntries }

RawMappings == GoodMappings \cup BadMappings

(***************************************************************************)
(* The state machine.                                                      *)
(***************************************************************************)
NoReturn == [op |-> "none", val |-> <<>>]

Init ==
    /\ raw \in RawMappings
    /\ pc = "raw"
    /\ options = NoOptions
    /\ heap = NoHeap
    /\ ret = NoReturn
    /\ first_commands = <<>>
    /\ plan = <<>>
    /\ ran = <<>>
    /\ ip = 0

\* the raw mapping satisfies the schema: the plugin is built with its options
Validate ==
    /\ pc = "raw"
    /\ ValidAgainst(GetSchema, raw)
    /\ pc' = "valid"
    /\ options' = MakeOptions(GetSchema, raw)
    /\ heap' = MakeHeap(GetSchema, raw)
    /\ UNCHANGED <<raw, ret, first_commands, plan, ran, ip>>

\* the raw mapping violates the schema: no plugin, no plan
Reject ==
    /\ pc = "raw"
    /\ ~ValidAgainst(GetSchema, raw)
    /\ pc' = "rejected"
    /\ UNCHANGED <<raw, options, heap, ret, first_commands, plan, ran, ip>>

GetBuildPackages ==
    /\ pc = "valid" /\ ip = 0
    /\ ret' = [op |-> "get_build_packages", val |-> get_build_packages(options)]
    /\ UNCHANGED <<raw, pc, options, heap, first_commands, plan, ran, ip>>

GetBuildEnvironment ==
    /\ pc = "valid" /\ ip = 0
    /\ ret' = [op |-> "get_build_environment", val |-> get_build_environment(options)]
    /\ UNCHANGED <<raw, pc, options, heap, first_commands, plan, ran, ip>>

ConfigureOpts ==
    /\ pc = "valid" /\ ip = 0
    /\ LET c == _configure_opts(heap, options)
       IN  /\ ret' = [op |-> "_configure_opts", val |-> c.heap[c.ref]]
           /\ heap' = Collect(c.heap)
    /\ UNCHANGED <<raw, pc, options, first_commands, plan, ran, ip>>

GetBuildCommands ==
    /\ pc = "valid" /\ ip = 0
    /\ LET c == get_build_commands(heap, options)
       IN  /\ ret' = [op |-> "get_build_commands", val |-> c.val]
           /\ heap' = Collect(c.heap)
           /\ first_commands' = IF first_commands = <<>> THEN <<c.val>> ELSE first_commands
    /\ UNCHANGED <<raw, pc, options, plan, ran, ip>>

\* the orchestrator starts to run the plan it was returned last
StartPlan ==
    /\ pc = "valid" /\ ip = 0
    /\ ret.op = "get_build_commands"
    /\ plan' = ret.val
    /\ ip' = 1
    /\ UNCHANGED <<raw, pc, options, heap, ret, first_commands, ran>>

\* a command of the plan exited non-zero: the executor has stopped
Stopped == IF ran = <<>> THEN FALSE ELSE ~ran[Len(ran)].ok

\* the executor runs the next command, unless a command before it failed
RunCommand ==
    /\ ip \in 1..Len(plan)
    /\ ~Stopped
    /\ \E ok \in BOOLEAN : ran' = Append(ran, [cmd |-> plan[ip], ok |-> ok])
    /\ ip' = ip + 1
    /\ UNCHANGED <<raw, pc, options, heap, ret, first_commands, plan>>

Next ==
    \/ Validate
    \/ Reject
    \/ GetBuildPackages
    \/ GetBuildEnvironment
    \/ ConfigureOpts
    \/ GetBuildCommands
    \/ StartPlan
    \/ RunCommand

Spec == Init /\ [][Next]_vars

(***************************************************************************)
(* Vocabulary of the properties.                                           *)
(***************************************************************************)
\* the configuration by value: the options with their two lists
Configuration(o, h) ==
    [flavor |-> o.ruby_flavor, version |-> o.ruby_version,
     use_dependency_manager |-> o.ruby_use_bundler, install_prefix |-> o.ruby_prefix,
     use_allocator_override |-> o.ruby_use_jemalloc, build_shared |-> o.ruby_shared,
     extra_configure_options |-> h[o.ruby_configure_options],
     packages_to_install |-> h[o.ruby_gems]]

DefaultConfiguration ==
    [flavor |-> "ruby", version |-> "3.0", use_dependency_manager |-> FALSE,
     install_prefix |-> "/usr", use_allocator_override |-> FALSE, build_shared |-> FALSE,
     extra_configure_options |-> <<>>, packages_to_install |-> <<>>]

Config == Configuration(options, heap)

\* method op of the plugin has returned, and no plan is being run yet
Returned(op) == ip = 0 /\ ret.op = op

\* the kinds of command of a plan
IsDownload(c) == StartsWith(c, "curl ")
IsComputeChecksum(c) == c = "sha256sum --tag ruby-install.tar.gz"
IsEchoExpected(c) == StartsWith(c, "echo 'SHA256 ") /\ ~Contains(c, "|")
IsChecksumAssert(c) == EndsWith(c, "| sha256sum --check --strict")
IsUnpack(c) == StartsWith(c, "tar ")
IsInstall(c) == StartsWith(c, "ruby-install-")
IsRemoveBundler(c) == StartsWith(c, "rm -f ") /\ EndsWith(c, "/bin/{bundle,bundler}")
IsInstallBundler(c) == c = "gem install --env-shebang --no-document bundler"
IsBundle(c) == c = "bundle"
IsGemInstall(c) == StartsWith(c, "gem install ")

Kind(c) ==
    CASE IsDownload(c) -> "download"
      [] IsComputeChecksum(c) -> "echo-actual-checksum"
      [] IsEchoExpected(c) -> "echo-expected-checksum"
      [] IsChecksumAssert(c) -> "checksum-assert"
      [] IsUnpack(c) -> "unpack"
      [] IsInstall(c) -> "install-invocation"
      [] IsRemoveBundler(c) -> "remove-old-dependency-manager"
      [] IsInstallBundler(c) -> "install-dependency-manager"
      [] OTHER -> "other"

Kinds(cmds) == [i \in 1..Len(cmds) |-> Kind(cmds[i])]

\* the positions of a plan whose command satisfies P
Positions(cmds, P(_)) == {i \in 1..Len(cmds) : P(cmds[i])}

Min(S) == CHOOSE i \in S : \A j \in S : i <= j

RECURSIVE Spaced(_)
\* the words of a list, a space in front of each
Spaced(list) ==
    IF list = <<>> THEN ""
    ELSE Spaced(SubSeq(list, 1, Len(list) - 1)) \o " " \o list[Len(list)]

(***************************************************************************)
(* C1                                                                      *)
(***************************************************************************)
\* C1, as claimed: for the all-defaults configuration (the empty mapping)
\* get_build_commands returns exactly 8 commands: download, echo of the actual
\* checksum, echo of the expected checksum, checksum assertion, unpack,
\* install invocation, removal of the old bundler, installation of bundler.
C1_EightCommands ==
    (Returned("get_build_commands") /\ DOMAIN raw = {}) =>
        /\ Len(ret.val) = 8
        /\ Kinds(ret.val) =
             << "download", "echo-actual-checksum", "echo-expected-checksum",
                "checksum-assert", "unpack", "install-invocation",
                "remove-old-dependency-manager", "install-dependency-manager" >>

\* C1, amended: for the all-defaults configuration get_build_commands returns
\* exactly 10 commands: the 8 claimed, in the claimed order, and two echo
\* commands that label the checksums, one before the computation of the actual
\* checksum and one before the echo of the expected one; no optional step.
C1_TenCommands ==
    (Returned("get_build_commands") /\ DOMAIN raw = {}) =>
        /\ Config = DefaultConfiguration
        /\ ret.val =
             << "curl -L --proto '=https' --tlsv1.2 https://github.com/postmodern/ruby-install/archive/refs/tags/v0.8.5.tar.gz -o ruby-install.tar.gz",
                "echo 'Checksum of downloaded file:'",
                "sha256sum --tag ruby-install.tar.gz",
                "echo 'Checksum is correct if it matches:'",
                "echo 'SHA256 (ruby-install.tar.gz) = 793fcf44dce375c6c191003c3bfd22ebc85fa296d751808ab315872f5ee0179b'",
                "echo 'SHA256 (ruby-install.tar.gz) = 793fcf44dce375c6c191003c3bfd22ebc85fa296d751808ab315872f5ee0179b' | sha256sum --check --strict",
                "tar xfz ruby-install.tar.gz",
                "ruby-install-0.8.5/bin/ruby-install --src-dir ${SNAPCRAFT_PART_SRC} --install-dir ${SNAPCRAFT_PART_INSTALL}/usr --package-manager apt --jobs=${SNAPCRAFT_PARALLEL_BUILD_COUNT} ruby-3.0 -- --without-baseruby --enable-load-relative --disable-install-doc",
                "rm -f ${SNAPCRAFT_PART_INSTALL}/usr/bin/{bundle,bundler}",
                "gem install --env-shebang --no-document bundler" >>
        /\ Kinds(ret.val) =
             << "download", "other", "echo-actual-checksum", "other",
                "echo-expected-checksum", "checksum-assert", "unpack",
                "install-invocation", "remove-old-dependency-manager",
                "install-dependency-manager" >>

\* the plan of the all-defaults configuration has been returned
C1_Witness == Returned("get_build_commands") /\ DOMAIN raw = {} /\ Len(ret.val) = 10

(***************************************************************************)
(* C7                                                                      *)
(***************************************************************************)
\* C7: get_build_packages returns exactly {curl} when ruby-use-jemalloc is
\* false and exactly {curl, libjemalloc-dev} when it is true, whatever the
\* other options are.
C7_BuildPackages ==
    Returned("get_build_packages") =>
        /\ "curl" \in ret.val
        /\ "libjemalloc-dev" \in ret.val <=> Config.use_allocator_override
        /\ ret.val \subseteq {"curl", "libjemalloc-dev"}

\* the packages of a configuration with the allocator override and other
\* options set have been returned
C7_Witness ==
    /\ Returned("get_build_packages")
    /\ Config.use_allocator_override
    /\ Config.build_shared /\ Config.use_dependency_manager
    /\ Config.packages_to_install # <<>>

(***************************************************************************)
(* C8                                                                      *)
(***************************************************************************)
\* C8: get_build_environment returns a mapping with the keys {PATH} when
\* ruby-shared is false and {PATH, LD_LIBRARY_PATH} when it is true; PATH is
\* the install-root placeholder, the prefix, /bin, a colon and ${PATH};
\* LD_LIBRARY_PATH is the install-root placeholder, the prefix, /lib and the
\* inherited value behind the non-empty guard.
C8_BuildEnvironment ==
    Returned("get_build_environment") =>
        /\ DOMAIN ret.val =
             IF Config.build_shared THEN {"PATH", "LD_LIBRARY_PATH"} ELSE {"PATH"}
        /\ ret.val["PATH"] =
             "${SNAPCRAFT_PART_INSTALL}" \o Config.install_prefix \o "/bin" \o ":" \o "${PATH}"
        /\ Config.build_shared =>
             ret.val["LD_LIBRARY_PATH"] =
                "${SNAPCRAFT_PART_INSTALL}" \o Config.install_prefix \o "/lib"
                    \o "${LD_LIBRARY_PATH:+:$LD_LIBRARY_PATH}"

\* the environment of a shared build under a prefix of the caller's
C8_Witness ==
    /\ Returned("get_build_environment")
    /\ Config.build_shared
    /\ Config.install_prefix = "/opt/ruby"

(***************************************************************************)
(* C2                                                                      *)
(***************************************************************************)
\* the command that ran at position i ran after a successful command of kind P
AfterSuccessful(i, P(_)) == \E j \in 1..(i - 1) : P(ran[j].cmd) /\ ran[j].ok

\* C2: when the plan is run in list order by an executor that stops at the
\* first command that exits non-zero, the unpacking and the ruby-install
\* invocation run only after the download and the strict checksum assertion
\* both ran and succeeded, and the bundler removal, the bundler installation,
\* bundle and the gem installation run only after the ruby-install invocation
\* succeeded.
C2_RequiredStepsSucceededBefore ==
    \A i \in 1..Len(ran) :
        /\ (IsUnpack(ran[i].cmd) \/ IsInstall(ran[i].cmd)) =>
                /\ AfterSuccessful(i, IsDownload)
                /\ AfterSuccessful(i, IsChecksumAssert)
        /\ (\/ IsRemoveBundler(ran[i].cmd) \/ IsGemInstall(ran[i].cmd)
            \/ IsBundle(ran[i].cmd)) =>
                AfterSuccessful(i, IsInstall)

\* a plan with both optional steps has been run to its end
C2_Witness ==
    /\ Len(plan) = 12
    /\ Len(ran) = Len(plan)
    /\ \A i \in 1..Len(ran) : ran[i].ok
    /\ IsBundle(ran[11].cmd) /\ IsGemInstall(ran[12].cmd)

(***************************************************************************)
(* C3                                                                      *)
(***************************************************************************)
Baseline == << "--without-baseruby", "--enable-load-relative", "--disable-install-doc" >>

\* the list has the flag f
Has(list, f) == \E i \in 1..Len(list) : list[i] = f

\* every f of the list stands after the baseline and the caller's flags
AfterCallerFlags(list, f) ==
    \A i \in 1..Len(list) :
        list[i] = f => i > Len(Baseline) + Len(Config.extra_configure_options)

\* C3, as claimed: for any caller-supplied options the list of
\* _configure_opts has --enable-shared iff ruby-shared is set and
\* --with-jemalloc iff ruby-use-jemalloc is set, and both flags, when present,
\* stand strictly after the baseline and the caller-supplied flags, shared
\* before allocator.
C3_FlagsIffAsClaimed ==
    Returned("_configure_opts") =>
        /\ Has(ret.val, "--enable-shared") <=> Config.build_shared
        /\ Has(ret.val, "--with-jemalloc") <=> Config.use_allocator_override
        /\ AfterCallerFlags(ret.val, "--enable-shared")
        /\ AfterCallerFlags(ret.val, "--with-jemalloc")
        /\ \A i, j \in 1..Len(ret.val) :
                (ret.val[i] = "--enable-shared" /\ ret.val[j] = "--with-jemalloc") => i < j

\* C3, amended: the list of _configure_opts is the three baseline flags, then
\* the caller-supplied flags, then what the plugin appends: --enable-shared
\* iff ruby-shared is set and --with-jemalloc iff ruby-use-jemalloc is set,
\* shared before allocator. (A flag the caller supplies itself is in the list
\* whatever the boolean says, at the caller's position.)
C3_AppendedFlags ==
    Returned("_configure_opts") =>
        LET n == Len(Baseline) + Len(Config.extra_configure_options)
            appended == SubSeq(ret.val, n + 1, Len(ret.val))
        IN  /\ Len(ret.val) >= n
            /\ SubSeq(ret.val, 1, Len(Baseline)) = Baseline
            /\ SubSeq(ret.val, Len(Baseline) + 1, n) = Config.extra_configure_options
            /\ Has(appended, "--enable-shared") <=> Config.build_shared
            /\ Has(appended, "--with-jemalloc") <=> Config.use_allocator_override
            /\ Len(appended) = (IF Config.build_shared THEN 1 ELSE 0)
                                + (IF Config.use_allocator_override THEN 1 ELSE 0)
            /\ (Config.build_shared /\ Config.use_allocator_override) =>
                    appended = << "--enable-shared", "--with-jemalloc" >>

\* the flags of a shared build with the allocator override and two options
\* of the caller's
C3_Witness ==
    /\ Returned("_configure_opts")
    /\ Config.build_shared /\ Config.use_allocator_override
    /\ Config.extra_configure_options = << "--foo", "--bar" >>

(***************************************************************************)
(* C4                                                                      *)
(***************************************************************************)
\* the position of the first p in s, 0 if there is none
Find(s, p) ==
    LET I == {i \in 1..(Len(s) - Len(p) + 1) : SubSeq(s, i, i + Len(p) - 1) = p}
    IN  IF I = {} THEN 0 ELSE Min(I)

\* the text of command c in front of and behind the separator at position k
BeforeSeparator(c, k) == SubSeq(c, 1, k - 1)
AfterSeparator(c, k) == SubSeq(c, k + 4, Len(c))

\* the plan has exactly one ruby-install invocation, with the separator in
\* it and the flavor-version identifier right in front of the separator
OneInstallInvocation(cmds) ==
    /\ Cardinality(Positions(cmds, IsInstall)) = 1
    /\ \A i \in Positions(cmds, IsInstall) :
            LET k == Find(cmds[i], " -- ")
            IN  /\ k > 0
                /\ EndsWith(BeforeSeparator(cmds[i], k),
                            " " \o Config.flavor \o "-" \o Config.version)

\* C4, as claimed: the plan has exactly one ruby-install invocation, the
\* flavor-version identifier stands right in front of its separator, and the
\* text behind the separator is the three baseline flags and then the
\* caller-supplied options in the caller's order, joined by spaces.
C4_FlagsBehindSeparatorAsClaimed ==
    Returned("get_build_commands") =>
        /\ OneInstallInvocation(ret.val)
        /\ \A i \in Positions(ret.val, IsInstall) :
                AfterSeparator(ret.val[i], Find(ret.val[i], " -- ")) =
                    "--without-baseruby --enable-load-relative --disable-install-doc"
                        \o Spaced(Config.extra_configure_options)

\* C4, amended: as claimed, but the text behind the separator goes on, after
\* the caller-supplied options, with --enable-shared when ruby-shared is set
\* and then --with-jemalloc when ruby-use-jemalloc is set.
C4_FlagsBehindSeparator ==
    Returned("get_build_commands") =>
        /\ OneInstallInvocation(ret.val)
        /\ \A i \in Positions(ret.val, IsInstall) :
                AfterSeparator(ret.val[i], Find(ret.val[i], " -- ")) =
                    "--without-baseruby --enable-load-relative --disable-install-doc"
                        \o Spaced(Config.extra_configure_options)
                        \o (IF Config.build_shared THEN " --enable-shared" ELSE "")
                        \o (IF Config.use_allocator_override THEN " --with-jemalloc" ELSE "")
        /\ Config.extra_configure_options = << "--foo", "--bar" >> =>
                \E i \in Positions(ret.val, IsInstall) :
                    Contains(ret.val[i], " --disable-install-doc --foo --bar")

\* the plan of a shared build of another flavor with two options of the caller's
C4_Witness ==
    /\ Returned("get_build_commands")
    /\ Config.extra_configure_options = << "--foo", "--bar" >>
    /\ Config.build_shared
    /\ Config.flavor = "jruby" /\ Config.version = "2.7.2"

(***************************************************************************)
(* C5                                                                      *)
(***************************************************************************)
\* the position of the command that installs bundler itself
Bootstrap(cmds) == Min(Positions(cmds, IsInstallBundler))

\* the positions of the commands that install the caller's gems: the gem
\* installations other than the one of bundler itself
GemPositions(cmds) == Positions(cmds, IsGemInstall) \ {Bootstrap(cmds)}

\* C5: without ruby-use-bundler the plan has no bundle command; with it the
\* plan has exactly one, after the removal of the old bundler executables and
\* the installation of bundler, and before any installation of the caller's
\* gems.
C5_BundleCommand ==
    Returned("get_build_commands") =>
        LET cmds == ret.val
            B == Positions(cmds, IsBundle)
        IN  /\ Positions(cmds, IsRemoveBundler) # {}
            /\ Positions(cmds, IsInstallBundler) # {}
            /\ ~Config.use_dependency_manager => B = {}
            /\ Config.use_dependency_manager =>
                    /\ Cardinality(B) = 1
                    /\ \A b \in B :
                            /\ \A i \in Positions(cmds, IsRemoveBundler) : i < b
                            /\ Bootstrap(cmds) < b
                            /\ \A g \in GemPositions(cmds) : b < g

\* a plan with the bundle command and an installation of gems
C5_Witness ==
    /\ Returned("get_build_commands")
    /\ Config.use_dependency_manager
    /\ Config.packages_to_install = << "rake", "rspec" >>

(***************************************************************************)
(* C6                                                                      *)
(***************************************************************************)
\* C6: with a non-empty ruby-gems exactly one command installs the caller's
\* gems, it is the last command of the plan, and its arguments behind
\* "gem install --env-shebang --no-document" are the gems in the caller's
\* order, joined by spaces; with an empty ruby-gems no command installs
\* gems of the caller's.
C6_GemCommand ==
    Returned("get_build_commands") =>
        LET cmds == ret.val
            gems == Config.packages_to_install
            G == GemPositions(cmds)
        IN  /\ Positions(cmds, IsInstallBundler) # {}
            /\ gems = <<>> => G = {}
            /\ gems # <<>> =>
                    /\ G = {Len(cmds)}
                    /\ cmds[Len(cmds)] =
                            "gem install --env-shebang --no-document" \o Spaced(gems)
            /\ gems = << "rake", "rspec" >> =>
                    cmds[Len(cmds)] = "gem install --env-shebang --no-document rake rspec"

\* a plan with an installation of two gems
C6_Witness ==
    /\ Returned("get_build_commands")
    /\ Config.packages_to_install = << "rspec", "rake" >>
    /\ ~Config.use_dependency_manager

(***************************************************************************)
(* C9                                                                      *)
(***************************************************************************)
\* the value the raw mapping gives to key k, or d
Given(k, d) == IF k \in DOMAIN raw THEN Value(raw[k]) ELSE d

\* the configuration the raw mapping stands for
ValidatedConfiguration ==
    [flavor |-> Given("ruby-flavor", "ruby"),
     version |-> Given("ruby-version", "3.0"),
     use_dependency_manager |-> Given("ruby-use-bundler", FALSE),
     install_prefix |-> Given("ruby-prefix", "/usr"),
     use_allocator_override |-> Given("ruby-use-jemalloc", FALSE),
     build_shared |-> Given("ruby-shared", FALSE),
     extra_configure_options |-> Given("ruby-configure-options", <<>>),
     packages_to_install |-> Given("ruby-gems", <<>>)]

\* C9: whatever sequence of calls of get_build_packages,
\* get_build_environment, _configure_opts and get_build_commands is made on
\* the plugin, the configuration stays what validation made it (the two lists
\* keep their length and contents), and every call of get_build_commands
\* returns the command sequence the first call returned.
C9_ConfigurationUnchanged ==
    pc = "valid" =>
        /\ Config = ValidatedConfiguration
        /\ ret.op = "get_build_commands" => first_commands = << ret.val >>

\* _configure_opts has appended its flags for a shared build with options of
\* the caller's, after get_build_commands had returned a plan
C9_Witness ==
    /\ Returned("_configure_opts")
    /\ first_commands # <<>>
    /\ Config.build_shared /\ Config.use_allocator_override
    /\ Config.extra_configure_options = << "--bar", "--foo" >>
    /\ Config.packages_to_install # <<>>

(***************************************************************************)
(* C10                                                                     *)
(***************************************************************************)
Numerals == {"0", "1", "2", "3", "7", "10", "12"}

\* the strings of the form major.minor or major.minor.patch
WellFormedVersions ==
    {a \o "." \o b : a, b \in Numerals}
        \cup {a \o "." \o b \o "." \o c : a, b, c \in Numerals}

\* the raw mapping gives a version string that is not of the form
MalformedVersion ==
    /\ "ruby-version" \in DOMAIN raw
    /\ raw["ruby-version"].t = "string"
    /\ raw["ruby-version"].v \notin WellFormedVersions

\* the raw mapping has a key that is none of the eight options
UnknownKey ==
    \E k \in DOMAIN raw :
        k \notin {"ruby-flavor", "ruby-version", "ruby-use-bundler", "ruby-prefix",
                  "ruby-use-jemalloc", "ruby-shared", "ruby-configure-options",
                  "ruby-gems"}

\* C10: a raw mapping whose version does not match ^\d+\.\d+(\.\d+)?$ or
\* that has a key outside the eight options fails validation, and no plan, not
\* even a partial one, is returned for it; the empty mapping is valid and
\* yields all defaults.
C10_Validation ==
    pc # "raw" =>
        /\ (MalformedVersion \/ UnknownKey) => pc = "rejected"
        /\ pc = "rejected" =>
                /\ ret.op = "none"
                /\ first_commands = <<>> /\ plan = <<>> /\ ran = <<>> /\ ip = 0
        /\ DOMAIN raw = {} => (pc = "valid" /\ Config = DefaultConfiguration)

\* a mapping with the version "3" has been rejected
C10_Witness ==
    /\ pc = "rejected"
    /\ "ruby-version" \in DOMAIN raw
    /\ raw["ruby-version"] = Str("3")

====
